---------------------------- MODULE Spec2Model ----------------------------
(***************************************************************************)
(* Model of scripts/gen-favicon.py: generate_log_ruler_svg and its driver. *)
(*                                                                         *)
(* Numbers are Python numbers.  An int is exact and unbounded; a float is  *)
(* an IEEE-754 binary64 value, every float operation being rounded to a    *)
(* 53-bit significand, ties to even.  A number is the record               *)
(*     [t |-> "int" or "float", neg |-> sign, mag |-> m, exp |-> e]        *)
(* of value (-1)^neg * m * 2^e, with m a natural number that is odd or     *)
(* zero.  TLC integers are 32 bits wide, so m is kept as a little-endian   *)
(* sequence of 15-bit limbs.  The exponent range of binary64 (overflow,    *)
(* subnormal numbers) is not modelled: the inputs stay far inside it.      *)
(***************************************************************************)
EXTENDS Integers, Sequences, FiniteSets, TLC

---------------------------------------------------------------------------
(* Natural numbers of any size: little-endian limbs, no high zero limb.    *)

LimbBits == 15
Base == 2^LimbBits

RECURSIVE BNorm(_)
BNorm(a) ==
    IF a = <<>> THEN <<>>
    ELSE IF a[Len(a)] = 0 THEN BNorm(SubSeq(a, 1, Len(a) - 1))
    ELSE a

RECURSIVE BFromInt(_)
BFromInt(n) ==
    IF n = 0 THEN <<>> ELSE <<n % Base>> \o BFromInt(n \div Base)

Limb(a, k) == IF k <= Len(a) THEN a[k] ELSE 0

RECURSIVE BCmpFrom(_, _, _)
BCmpFrom(a, b, k) ==
    IF k = 0 THEN 0
    ELSE IF a[k] > b[k] THEN 1
    ELSE IF a[k] < b[k] THEN -1
    ELSE BCmpFrom(a, b, k - 1)

BCmp(a, b) ==
    IF Len(a) > Len(b) THEN 1
    ELSE IF Len(a) < Len(b) THEN -1
    ELSE BCmpFrom(a, b, Len(a))

RECURSIVE BAddFrom(_, _, _, _)
BAddFrom(a, b, k, c) ==
    IF k > Len(a) /\ k > Len(b)
    THEN (IF c = 0 THEN <<>> ELSE <<c>>)
    ELSE LET s == Limb(a, k) + Limb(b, k) + c
         IN  <<s % Base>> \o BAddFrom(a, b, k + 1, s \div Base)

BAdd(a, b) == BAddFrom(a, b, 1, 0)

RECURSIVE BSubFrom(_, _, _, _)
BSubFrom(a, b, k, c) ==
    IF k > Len(a) THEN <<>>
    ELSE LET d == a[k] - Limb(b, k) - c
         IN  <<IF d < 0 THEN d + Base ELSE d>>
                 \o BSubFrom(a, b, k + 1, IF d < 0 THEN 1 ELSE 0)

\* a - b, for a >= b
BSub(a, b) == BNorm(BSubFrom(a, b, 1, 0))

RECURSIVE BMulSmallFrom(_, _, _, _)
BMulSmallFrom(a, m, k, c) ==
    IF k > Len(a)
    THEN (IF c = 0 THEN <<>> ELSE <<c>>)
    ELSE LET p == a[k] * m + c
         IN  <<p % Base>> \o BMulSmallFrom(a, m, k + 1, p \div Base)

\* a * m, for 0 <= m <= Base
BMulSmall(a, m) == IF m = 0 THEN <<>> ELSE BMulSmallFrom(a, m, 1, 0)

BShiftLimbs(a, n) == IF a = <<>> THEN <<>> ELSE [k \in 1..n |-> 0] \o a

RECURSIVE BMulFrom(_, _, _)
BMulFrom(a, b, k) ==
    IF k > Len(b) THEN <<>>
    ELSE BAdd(BMulSmall(a, b[k]), BShiftLimbs(BMulFrom(a, b, k + 1), 1))

BMul(a, b) == BMulFrom(a, b, 1)

RECURSIVE BDivSmallFrom(_, _, _, _)
BDivSmallFrom(a, m, k, r) ==
    IF k = 0 THEN <<>>
    ELSE LET n == r * Base + a[k]
         IN  BDivSmallFrom(a, m, k - 1, n % m) \o <<n \div m>>

\* floor(a / m), for 0 < m <= Base
BDivSmall(a, m) == BNorm(BDivSmallFrom(a, m, Len(a), 0))

\* a * 2^s
BShl(a, s) == BShiftLimbs(BMulSmall(a, 2^(s % LimbBits)), s \div LimbBits)

\* floor(a / 2^s)
BShr(a, s) ==
    LET d == s \div LimbBits
    IN  IF d >= Len(a) THEN <<>>
        ELSE BDivSmall(SubSeq(a, d + 1, Len(a)), 2^(s % LimbBits))

RECURSIVE IntBitLen(_)
IntBitLen(n) == IF n = 0 THEN 0 ELSE 1 + IntBitLen(n \div 2)

\* number of bits of a
BBitLen(a) ==
    IF a = <<>> THEN 0 ELSE LimbBits * (Len(a) - 1) + IntBitLen(a[Len(a)])

RECURSIVE IntTz(_)
IntTz(n) == IF n % 2 = 1 THEN 0 ELSE 1 + IntTz(n \div 2)

RECURSIVE BTzFrom(_, _)
BTzFrom(a, k) ==
    IF a[k] = 0 THEN LimbBits + BTzFrom(a, k + 1) ELSE IntTz(a[k])

\* number of trailing zero bits of a, for a > 0
BTz(a) == BTzFrom(a, 1)

BIsOdd(a) == a # <<>> /\ a[1] % 2 = 1

\* a rounded to a multiple of 2^s, in units of 2^s: nearest, ties to even
BRoundShr(a, s) ==
    IF s = 0 THEN a
    ELSE LET q    == BShr(a, s)
             rem  == BSub(a, BShl(q, s))
             half == BShl(<<1>>, s - 1)
             c    == BCmp(rem, half)
         IN  IF c > 0 \/ (c = 0 /\ BIsOdd(q)) THEN BAdd(q, <<1>>) ELSE q

\* n more quotient bits of r / d, for r < d and n <= LimbBits: the pair
\* <<floor((q + r / d) * 2^n), remainder>> with q the bits found so far
RECURSIVE DivBits(_, _, _, _)
DivBits(r, d, n, q) ==
    IF n = 0 THEN <<q, r>>
    ELSE LET r2 == BMulSmall(r, 2)
         IN  IF BCmp(r2, d) >= 0
             THEN DivBits(BSub(r2, d), d, n - 1, 2 * q + 1)
             ELSE DivBits(r2, d, n - 1, 2 * q)

\* <<floor(r * Base^4 / d), remainder>>, for r < d, a limb at a time
DivLimbs(r, d) ==
    LET c4 == DivBits(r, d, LimbBits, 0)
        c3 == DivBits(c4[2], d, LimbBits, 0)
        c2 == DivBits(c3[2], d, LimbBits, 0)
        c1 == DivBits(c2[2], d, LimbBits, 0)
    IN  <<BNorm(<<c1[1], c2[1], c3[1], c4[1]>>), c1[2]>>

---------------------------------------------------------------------------
(* Python numbers.                                                         *)

\* width of the binary64 significand
Precision == 53

\* the number (-1)^neg * mag * 2^exp of type t, in canonical form
Mk(t, neg, mag, exp) ==
    IF mag = <<>>
    THEN [t |-> t, neg |-> (neg /\ t = "float"), mag |-> <<>>, exp |-> 0]
    ELSE LET z == BTz(mag)
         IN  [t |-> t, neg |-> neg, mag |-> BShr(mag, z), exp |-> exp + z]

\* the float nearest to (-1)^neg * mag * 2^exp
RoundF(neg, mag, exp) ==
    LET s == BBitLen(mag) - Precision
    IN  IF s <= 0 THEN Mk("float", neg, mag, exp)
        ELSE Mk("float", neg, BRoundShr(mag, s), exp + s)

\* int literal n and float literal n * 2^e, n a TLA+ integer
PyInt(n) == Mk("int", n < 0, BFromInt(IF n < 0 THEN -n ELSE n), 0)
PyFloat(n, e) == Mk("float", n < 0, BFromInt(IF n < 0 THEN -n ELSE n), e)

\* float(x)
ToFloat(x) == RoundF(x.neg, x.mag, x.exp)

BothInt(x, y) == x.t = "int" /\ y.t = "int"

Min(a, b) == IF a < b THEN a ELSE b
Max(a, b) == IF a > b THEN a ELSE b

\* -1, 0, 1 as x < y, x = y, x > y: comparison by value, as Python compares
\* an int with a float
NumCmp(x, y) ==
    LET e  == Min(x.exp, y.exp)
        mx == BShl(x.mag, x.exp - e)
        my == BShl(y.mag, y.exp - e)
        sx == IF x.mag = <<>> THEN 0 ELSE IF x.neg THEN -1 ELSE 1
        sy == IF y.mag = <<>> THEN 0 ELSE IF y.neg THEN -1 ELSE 1
    IN  IF sx # sy THEN (IF sx < sy THEN -1 ELSE 1)
        ELSE sx * BCmp(mx, my)

NumEq(x, y) == NumCmp(x, y) = 0
NumLe(x, y) == NumCmp(x, y) <= 0
NumLt(x, y) == NumCmp(x, y) < 0

\* the exact sum of x and y as <<neg, mag, exp>>
ExactSum(x, y) ==
    LET e  == Min(x.exp, y.exp)
        mx == BShl(x.mag, x.exp - e)
        my == BShl(y.mag, y.exp - e)
        c  == BCmp(mx, my)
    IN  IF x.neg = y.neg THEN <<x.neg, BAdd(mx, my), e>>
        ELSE IF c = 0 THEN <<FALSE, <<>>, 0>>
        ELSE IF c > 0 THEN <<x.neg, BSub(mx, my), e>>
        ELSE <<y.neg, BSub(my, mx), e>>

\* x + y
PyAdd(x, y) ==
    IF BothInt(x, y)
    THEN LET s == ExactSum(x, y) IN Mk("int", s[1], s[2], s[3])
    ELSE LET s == ExactSum(ToFloat(x), ToFloat(y))
         IN  RoundF(s[1], s[2], s[3])

PyNeg(x) == [x EXCEPT !.neg = (~x.neg /\ (x.t = "float" \/ x.mag # <<>>))]

\* x - y
PySub(x, y) ==
    IF BothInt(x, y)
    THEN LET s == ExactSum(x, PyNeg(y)) IN Mk("int", s[1], s[2], s[3])
    ELSE LET s == ExactSum(ToFloat(x), PyNeg(ToFloat(y)))
         IN  RoundF(s[1], s[2], s[3])

\* x * y
PyMul(x, y) ==
    IF BothInt(x, y)
    THEN Mk("int", x.neg # y.neg, BMul(x.mag, y.mag), x.exp + y.exp)
    ELSE LET fx == ToFloat(x)
             fy == ToFloat(y)
         IN  RoundF(fx.neg # fy.neg, BMul(fx.mag, fy.mag), fx.exp + fy.exp)

\* x / y for floats x and y, y nonzero
PyDiv(x, y) ==
    IF x.mag = <<>> THEN Mk("float", x.neg # y.neg, <<>>, 0)
    ELSE LET la == BBitLen(x.mag)
             lb == BBitLen(y.mag)
             sr == Max(0, lb - la)
             sd == Max(0, la - lb) + 1
             n  == 4 * LimbBits
             qr == DivLimbs(BShl(x.mag, sr), BShl(y.mag, sd))
             \* one more bit, set when the quotient is inexact
             q  == BAdd(BMulSmall(qr[1], 2),
                        IF qr[2] = <<>> THEN <<>> ELSE <<1>>)
         IN  RoundF(x.neg # y.neg, q, x.exp - y.exp + sd - sr - n - 1)

---------------------------------------------------------------------------
(* Library functions used by the script.                                   *)

\* math.log(k) for k = 1..16: the binary64 value nearest to ln(k), as
\* <<significand limbs, exponent>> (0x1.62e42fefa39efp-1 for k = 2, ...)
LogTable ==
    << << <<>>, 0 >>,
       << <<14831, 32244, 14603, 177>>, -53 >>,
       << <<779, 30042, 20393, 140>>, -52 >>,
       << <<14831, 32244, 14603, 177>>, -52 >>,
       << <<3379, 28635, 263, 206>>, -52 >>,
       << <<4097, 31274, 22039, 114>>, -51 >>,
       << <<23127, 23652, 2506, 249>>, -52 >>,
       << <<11123, 32375, 2760, 133>>, -51 >>,
       << <<779, 30042, 20393, 140>>, -51 >>,
       << <<10891, 15285, 22371, 73>>, -50 >>,
       << <<19923, 23487, 12003, 38>>, -49 >>,
       << <<7805, 31143, 1114, 159>>, -51 >>,
       << <<3153, 22115, 5136, 164>>, -51 >>,
       << <<15271, 11695, 29480, 168>>, -51 >>,
       << <<18463, 29338, 10328, 173>>, -51 >>,
       << <<14831, 32244, 14603, 177>>, -51 >> >>

math_log(k) == Mk("float", FALSE, LogTable[k][1], LogTable[k][2])

\* (mutant) ".1f" cutting the digits off instead of rounding
Fmt1Trunc(x) ==
    LET f == ToFloat(x)
        n == BMulSmall(f.mag, 10)
    IN  [neg    |-> f.neg,
         tenths |-> IF f.exp >= 0 THEN BShl(n, f.exp) ELSE BShr(n, -f.exp)]

\* format(x, ".1f"): the decimal with one fractional digit nearest to the
\* exact value of float(x), ties to even, as a sign and a number of tenths
Fmt1(x) ==
    LET f == ToFloat(x)
        n == BMulSmall(f.mag, 10)
    IN  [neg    |-> f.neg,
         tenths |-> IF f.exp >= 0 THEN BShl(n, f.exp)
                    ELSE BRoundShr(n, -f.exp)]

\* '\n'.join(lines): the lines with a newline between each two
Newline == [kind |-> "newline"]
\* (mutant) ''.join(lines)
JoinNoSep(lines) == lines

Join(lines) ==
    [k \in 1..(2 * Len(lines) - 1) |->
        IF k % 2 = 1 THEN lines[(k + 1) \div 2] ELSE Newline]

---------------------------------------------------------------------------
(* generate_log_ruler_svg                                                  *)

VARIABLES
    caller,              \* "driver": the call of line 76; "other": any call
    pc,                  \* "start", "for", "return", "done", "written", "printed"
    num_marks, width, height, margin, baseline_y, color,
    baseline_thickness, mark_thickness,
    tall_height, medium_height, short_height,
    svg_lines, x_start, x_end, ruler_width,
    i,                   \* the next value of range(num_marks)
    ticks,               \* the locals of every iteration so far
    svg_content, file, stdout

params == <<caller, num_marks, width, height, margin, baseline_y, color,
            baseline_thickness, mark_thickness,
            tall_height, medium_height, short_height>>
locals == <<svg_lines, x_start, x_end, ruler_width, i, ticks>>
vars == <<pc, params, locals, svg_content, file, stdout>>

\* a name that is not bound yet
None == [t |-> "none"]

\* the text lines, by what they hold; a number interpolated as {v} is
\* written as str(v), which fixes v and its type, and is kept as v
SvgOpen(w, h) == [kind |-> "open", viewBox |-> <<PyInt(0), PyInt(0), w, h>>]
Comment(text) == [kind |-> "comment", text |-> text]
MarkComment(k, x) == [kind |-> "comment", text |-> "Mark", mark |-> k, x |-> x]
LineEl(x1, y1, x2, y2, stroke, sw) ==
    [kind |-> "line", x1 |-> x1, y1 |-> y1, x2 |-> x2, y2 |-> y2,
     stroke |-> stroke, stroke_width |-> sw]
Blank == [kind |-> "blank"]
SvgClose == [kind |-> "close"]

\* lines 31-39
PreludeLines(w, h, xs, xe, by, col, bt) ==
    << SvgOpen(w, h),
       Comment("Horizontal baseline"),
       LineEl(xs, by, xe, by, col, bt),
       Blank,
       Comment("Log-spaced markings") >>

\* (mutant) range(n - 1)
HasNextShort(k, n) == k < n - 1

\* range(n) has a next value k
HasNext(k, n) == k < n

\* (mutant) math.log(n + 1) as the denominator
RatioLogBase(k, n) ==
    IF n = 1 THEN PyInt(0) ELSE PyDiv(math_log(k + 1), math_log(n + 1))

\* (mutant) the degenerate case placed at the right end
RatioDegenerateOne(k, n) ==
    IF n = 1 THEN PyInt(1) ELSE PyDiv(math_log(k + 1), math_log(n))

\* (mutant) the spacing mirrored: dense at the left end
RatioFlipped(k, n) ==
    IF n = 1 THEN PyInt(0)
    ELSE PySub(PyFloat(1, 0), PyDiv(math_log(n - k), math_log(n)))

\* lines 46-49
Ratio(k, n) ==
    IF n = 1 THEN PyInt(0) ELSE PyDiv(math_log(k + 1), math_log(n))

\* (mutant) the ruler laid out to the left of x_start
XPosMinus(xs, rw, r) == PySub(xs, PyMul(rw, r))

\* line 51
XPos(xs, rw, r) == PyAdd(xs, PyMul(rw, r))

\* (mutant) only index 0 taken as an endpoint
WeightFirstOnly(k, n, mt, tall, medium, short) ==
    IF k = 0 THEN <<tall, PyAdd(mt, PyFloat(1, -1))>>
    ELSE IF k % 2 = 0 THEN <<medium, mt>>
    ELSE <<short, mt>>

\* (mutant) medium and short exchanged
WeightSwapped(k, n, mt, tall, medium, short) ==
    IF k = 0 \/ k = n - 1 THEN <<tall, PyAdd(mt, PyFloat(1, -1))>>
    ELSE IF k % 2 = 0 THEN <<short, mt>>
    ELSE <<medium, mt>>

\* lines 54-62: <<mark_height, thickness>>
Weight(k, n, mt, tall, medium, short) ==
    IF k = 0 \/ k = n - 1 THEN <<tall, PyAdd(mt, PyFloat(1, -1))>>
    ELSE IF k % 2 = 0 THEN <<medium, mt>>
    ELSE <<short, mt>>

\* (mutant) the tick drawn downwards
YTopPlus(by, mh) == PyAdd(by, mh)

\* line 64
YTop(by, mh) == PySub(by, mh)

\* lines 66-68
MarkLines(k, xp, by, yt, col, th) ==
    << MarkComment(k, Fmt1(xp)),
       LineEl(Fmt1(xp), by, Fmt1(xp), yt, col, th),
       Blank >>

\* the arguments of the driver's call, lines 76-88
DriverArgs ==
    /\ num_marks = 10
    /\ width = PyInt(64)
    /\ height = PyInt(64)
    /\ margin = PyInt(5)
    /\ baseline_y = PyInt(55)
    /\ color = "#333"
    /\ baseline_thickness = PyInt(3)
    /\ mark_thickness = PyInt(2)
    /\ tall_height = PyInt(40)
    /\ medium_height = PyInt(30)
    /\ short_height = PyInt(20)

\* arguments of other calls
MaxMarks == 5
NumMarks == 0..MaxMarks
Widths == { PyInt(64), PyInt(100), PyInt(7), PyFloat(1, -52),
            PyAdd(PyFloat(1, 51), PyFloat(1, 0)) }
Margins == { PyInt(5), PyInt(10), PyInt(-2), PyFloat(-1, 0), PyFloat(1, 50) }
Heights == { PyInt(48) }
BaselineYs == { PyInt(70), PyFloat(111, -1) }
Colors == { "#333", "#0066cc" }
BaselineThicknesses == { PyInt(3) }
MarkThicknesses == { PyInt(2), PyFloat(3, -1) }
Tiers == { <<PyInt(40), PyInt(30), PyInt(20)>>,
           <<PyFloat(25, -1), PyInt(9), PyInt(-4)>> }

OtherArgs ==
    /\ num_marks \in NumMarks
    /\ width \in Widths
    /\ height \in Heights
    /\ margin \in Margins
    /\ baseline_y \in BaselineYs
    /\ color \in Colors
    /\ baseline_thickness \in BaselineThicknesses
    /\ mark_thickness \in MarkThicknesses
    /\ \E tier \in Tiers :
         /\ tall_height = tier[1]
         /\ medium_height = tier[2]
         /\ short_height = tier[3]

Init ==
    /\ pc = "start"
    /\ \/ caller = "driver" /\ DriverArgs
       \/ caller = "other" /\ OtherArgs
    /\ svg_lines = None /\ x_start = None /\ x_end = None
    /\ ruler_width = None /\ i = None /\ ticks = <<>>
    /\ svg_content = None /\ file = None /\ stdout = <<>>

\* lines 30-42
Prelude ==
    /\ pc = "start"
    /\ x_start' = margin
    /\ x_end' = PySub(width, margin)
    /\ svg_lines' = PreludeLines(width, height, x_start', x_end', baseline_y,
                                 color, baseline_thickness)
    /\ ruler_width' = PySub(x_end', x_start')
    /\ i' = 0
    /\ pc' = "for"
    /\ UNCHANGED <<params, ticks, svg_content, file, stdout>>

\* lines 44-68: one iteration of the loop
Mark ==
    /\ pc = "for"
    /\ HasNext(i, num_marks)
    /\ LET ratio == Ratio(i, num_marks)
           x_pos == XPos(x_start, ruler_width, ratio)
           wt    == Weight(i, num_marks, mark_thickness,
                           tall_height, medium_height, short_height)
           y_top == YTop(baseline_y, wt[1])
       IN  /\ svg_lines' = svg_lines \o
                  MarkLines(i, x_pos, baseline_y, y_top, color, wt[2])
           /\ ticks' = Append(ticks,
                  [i |-> i, ratio |-> ratio, x_pos |-> x_pos,
                   mark_height |-> wt[1], thickness |-> wt[2],
                   y_top |-> y_top])
    /\ i' = i + 1
    /\ UNCHANGED <<pc, params, x_start, x_end, ruler_width,
                   svg_content, file, stdout>>

\* lines 70-72, and the assignment of line 76
Return ==
    /\ pc = "for"
    /\ ~HasNext(i, num_marks)
    /\ svg_lines' = Append(svg_lines, SvgClose)
    /\ svg_content' = Join(svg_lines')
    /\ pc' = "done"
    /\ UNCHANGED <<params, x_start, x_end, ruler_width, i, ticks,
                   file, stdout>>

\* lines 91-93
WriteFile ==
    /\ pc = "done"
    /\ caller = "driver"
    /\ file' = [name |-> "log_ruler_favicon.svg", content |-> svg_content]
    /\ pc' = "written"
    /\ UNCHANGED <<params, locals, svg_content, stdout>>

\* line 95
PrintSaved ==
    /\ pc = "written"
    /\ stdout' = Append(stdout, "SVG saved to log_ruler_favicon.svg")
    /\ pc' = "printed"
    /\ UNCHANGED <<params, locals, svg_content, file>>

Next == Prelude \/ Mark \/ Return \/ WriteFile \/ PrintSaved

Spec == Init /\ [][Next]_vars

---------------------------------------------------------------------------
(* Properties.                                                             *)

\* exact sum and difference of two numbers, without rounding
RealAdd(x, y) == LET s == ExactSum(x, y) IN Mk("real", s[1], s[2], s[3])
RealSub(x, y) ==
    LET s == ExactSum(x, [y EXCEPT !.neg = ~y.neg])
    IN  Mk("real", s[1], s[2], s[3])

Returned == pc \in {"done", "written", "printed"}

\* the data-model invariant margin * 2 < width
WellFormed == NumLt(PyMul(margin, PyInt(2)), width)

\* width and margin are ints of magnitude at most 2^20: every operation on
\* them, and their conversion to float, is exact
SmallInts ==
    /\ BothInt(width, margin)
    /\ \A x \in {width, margin} :
           NumLe(PyInt(-(2^20)), x) /\ NumLe(x, PyInt(2^20))

\* the line element emitted for the k-th tick (tick index k - 1)
TickLine(k) == svg_lines[3 * k + 4]

IsEndpoint(k) == k - 1 = 0 \/ k - 1 = num_marks - 1

IsBaseline(l) ==
    l = LineEl(margin, baseline_y, PySub(width, margin), baseline_y,
               color, baseline_thickness)
IsTick(l) == l.kind = "line" /\ ~IsBaseline(l) /\ l.x1 = l.x2
Count(doc, Test(_)) == Cardinality({k \in DOMAIN doc : Test(doc[k])})
IsLine(l) == l.kind = "line"
IsOpen(l) == l.kind = "open"
IsClose(l) == l.kind = "close"
IsElement(l) == l.kind \in {"open", "line", "close"}

\* C1 as stated: for every mark count N > 1 and any width and margin,
\* tick 0 is at exactly margin and tick N-1 at exactly width - margin.
C1_Original ==
    (Returned /\ num_marks > 1) =>
        /\ NumEq(ticks[1].x_pos, margin)
        /\ NumEq(ticks[num_marks].x_pos, PySub(width, margin))

\* C1 amended: for N > 1, tick 0 is at exactly margin; the ratio of tick
\* N-1 is exactly 1 and the tick is at margin + ((width - margin) - margin)
\* as float arithmetic rounds it, which is exactly width - margin when width
\* and margin are integers of magnitude at most 2^20.
C1_Amended ==
    (Returned /\ num_marks > 1) =>
        /\ NumEq(ticks[1].x_pos, margin)
        /\ ticks[1].ratio = PyFloat(0, 0)
        /\ ticks[num_marks].ratio = PyFloat(1, 0)
        /\ NumEq(ticks[num_marks].x_pos,
                 PyAdd(margin, PySub(PySub(width, margin), margin)))
        /\ SmallInts =>
               /\ NumEq(ticks[num_marks].x_pos, PySub(width, margin))
               /\ NumEq(ticks[num_marks].x_pos, RealSub(width, margin))

C1_Witness ==
    /\ Returned /\ num_marks > 2 /\ SmallInts /\ WellFormed
    /\ NumEq(ticks[num_marks].x_pos, RealSub(width, margin))

\* C2: for mark count 1 the degenerate branch is taken (ratio is the int 0,
\* no division of logarithms), exactly one tick is emitted and its position
\* is exactly margin.
C2_Degenerate ==
    (Returned /\ num_marks = 1) =>
        /\ Len(ticks) = 1
        /\ ticks[1].ratio = PyInt(0)
        /\ NumEq(ticks[1].x_pos, margin)
        /\ Count(svg_lines, IsTick) = 1
        /\ TickLine(1).x1 = Fmt1(margin)

C2_Witness == Returned /\ num_marks = 1 /\ NumEq(ticks[1].x_pos, margin)

\* C3: an endpoint tick (index 0 or count - 1) has the tall height and the
\* thickness mark_thickness + 0.5, whatever the parity of its index.
C3_Endpoints ==
    \A k \in 1..Len(ticks) :
        IsEndpoint(k) =>
            /\ ticks[k].mark_height = tall_height
            /\ ticks[k].thickness = PyAdd(mark_thickness, PyFloat(1, -1))
            /\ TickLine(k).y2 = PySub(baseline_y, tall_height)
            /\ TickLine(k).stroke_width = PyAdd(mark_thickness, PyFloat(1, -1))

C3_Witness ==
    /\ Returned /\ num_marks = 4
    /\ ticks[4].mark_height = tall_height /\ ticks[4].i % 2 = 1

\* C4: a tick that is not an endpoint has the medium height when its index
\* is even and the short height when it is odd, and thickness mark_thickness
\* in both cases; tick 1, when it is not an endpoint, is short.
C4_Alternate ==
    \A k \in 1..Len(ticks) :
        ~IsEndpoint(k) =>
            /\ ticks[k].mark_height =
                   (IF (k - 1) % 2 = 0 THEN medium_height ELSE short_height)
            /\ ticks[k].thickness = mark_thickness
            /\ TickLine(k).y2 = PySub(baseline_y, ticks[k].mark_height)
            /\ TickLine(k).stroke_width = mark_thickness
            /\ (k < Len(ticks) /\ ~IsEndpoint(k + 1)) =>
                   ticks[k + 1].mark_height # ticks[k].mark_height

C4_Witness ==
    /\ Returned /\ num_marks >= 5
    /\ ticks[2].mark_height = short_height
    /\ ticks[3].mark_height = medium_height
    /\ ticks[4].mark_height = short_height

\* C5: the returned text has one opening and one closing svg tag, one
\* baseline line element and num_marks tick line elements, num_marks + 1
\* line elements in all.
C5_Elements ==
    Returned =>
        /\ Count(svg_content, IsOpen) = 1
        /\ Count(svg_content, IsClose) = 1
        /\ Count(svg_content, IsBaseline) = 1
        /\ Count(svg_content, IsTick) = num_marks
        /\ Count(svg_content, IsLine) = num_marks + 1

C5_Witness == Returned /\ num_marks >= 3 /\ Count(svg_content, IsTick) >= 3

\* C6: for mark count >= 1 and margin * 2 < width, tick positions never
\* decrease with the tick index.
C6_Monotone ==
    (num_marks >= 1 /\ WellFormed) =>
        \A j, k \in 1..Len(ticks) :
            j < k => NumLe(ticks[j].x_pos, ticks[k].x_pos)

C6_Witness ==
    /\ Returned /\ num_marks >= 3 /\ WellFormed
    /\ NumLt(ticks[1].x_pos, ticks[2].x_pos)
    /\ NumLt(ticks[2].x_pos, ticks[3].x_pos)

\* C7: the driver's document has tick 0 at 5.0 (tall, thickness 2.5), tick 9
\* at 59.0 (tall, thickness 2.5), tick 1 at 5 + 54*log(2)/log(10) written
\* 21.3 (short, thickness 2) and the baseline from 5 to 59 at y 55 with
\* thickness 3.
C7_Driver ==
    (Returned /\ caller = "driver") =>
        /\ TickLine(1) = LineEl([neg |-> FALSE, tenths |-> <<50>>], PyInt(55),
                                [neg |-> FALSE, tenths |-> <<50>>], PyInt(15),
                                "#333", PyFloat(5, -1))
        /\ TickLine(10) = LineEl([neg |-> FALSE, tenths |-> <<590>>], PyInt(55),
                                 [neg |-> FALSE, tenths |-> <<590>>], PyInt(15),
                                 "#333", PyFloat(5, -1))
        /\ TickLine(2) = LineEl([neg |-> FALSE, tenths |-> <<213>>], PyInt(55),
                                [neg |-> FALSE, tenths |-> <<213>>], PyInt(35),
                                "#333", PyInt(2))
        /\ ticks[2].x_pos =
               PyAdd(PyInt(5),
                     PyMul(PyInt(54), PyDiv(math_log(2), math_log(10))))
        /\ svg_lines[3] = LineEl(PyInt(5), PyInt(55), PyInt(59), PyInt(55),
                                 "#333", PyInt(3))

C7_Witness == pc = "printed" /\ caller = "driver" /\ Len(ticks) = 10

\* the line elements of the ticks so far, in index order
TickLines == [k \in 1..Len(ticks) |-> TickLine(k)]

\* C8 as stated: the document is the opening tag, the baseline line element,
\* one line element per tick in increasing index and the closing tag, with
\* no other line, joined by newlines.
C8_Original ==
    Returned =>
        /\ svg_lines = << SvgOpen(width, height),
                          LineEl(x_start, baseline_y, x_end, baseline_y,
                                 color, baseline_thickness) >>
                       \o TickLines \o <<SvgClose>>
        /\ Len(svg_content) = 2 * Len(svg_lines) - 1
        /\ \A k \in DOMAIN svg_lines : svg_content[2 * k - 1] = svg_lines[k]
        /\ \A k \in 1..(Len(svg_lines) - 1) : svg_content[2 * k] = Newline

\* C8 amended: the opening tag is first and the closing tag last; the
\* element lines are, in order, the baseline and the ticks in increasing
\* index; every other line is a comment or an empty line; the returned
\* string is the lines joined by newlines.
C8_Amended ==
    Returned =>
        /\ svg_lines[1] = SvgOpen(width, height)
        /\ svg_lines[Len(svg_lines)] = SvgClose
        /\ SelectSeq(svg_lines, IsElement) =
               << SvgOpen(width, height),
                  LineEl(x_start, baseline_y, x_end, baseline_y,
                         color, baseline_thickness) >>
               \o TickLines \o <<SvgClose>>
        /\ \A k \in 1..Len(ticks) :
               /\ TickLine(k).x1 = Fmt1(ticks[k].x_pos)
               /\ ticks[k].i = k - 1
        /\ \A k \in DOMAIN svg_lines :
               ~IsElement(svg_lines[k]) =>
                   svg_lines[k].kind \in {"comment", "blank"}
        /\ Len(svg_content) = 2 * Len(svg_lines) - 1
        /\ \A k \in DOMAIN svg_lines : svg_content[2 * k - 1] = svg_lines[k]
        /\ \A k \in 1..(Len(svg_lines) - 1) : svg_content[2 * k] = Newline

C8_Witness ==
    /\ Returned /\ num_marks >= 2
    /\ Len(svg_lines) = 3 * num_marks + 6
    /\ svg_lines[2].kind = "comment"

\* the gap after tick k + 1 is smaller than the gap after tick k
GapShrinks(k) ==
    NumLt(RealAdd(ticks[k + 2].x_pos, ticks[k].x_pos),
          RealAdd(ticks[k + 1].x_pos, ticks[k + 1].x_pos))

\* C9 as stated: for N > 2 and margin * 2 < width the gaps between
\* consecutive ticks strictly shrink as the index grows.
C9_Original ==
    (num_marks > 2 /\ WellFormed) =>
        \A k \in 1..(Len(ticks) - 2) : GapShrinks(k)

\* C9 amended: the same for N <= 1000 and integer width and margin of
\* magnitude at most 2^20, where the rounding of a position is far smaller
\* than the difference of two gaps.
C9_Amended ==
    (num_marks > 2 /\ num_marks <= 1000 /\ WellFormed /\ SmallInts) =>
        \A k \in 1..(Len(ticks) - 2) : GapShrinks(k)

C9_Witness ==
    /\ Returned /\ num_marks >= 4 /\ WellFormed /\ SmallInts
    /\ GapShrinks(1) /\ GapShrinks(2)

\* C10: a tick line element is vertical and anchored on the baseline: x1 and
\* x2 are the tick's position, y1 is baseline_y, y2 is baseline_y minus the
\* tick's height; for a height >= 0 it does not reach below the baseline.
C10_Anchored ==
    \A k \in 1..Len(ticks) :
        /\ TickLine(k).x1 = Fmt1(ticks[k].x_pos)
        /\ TickLine(k).x2 = TickLine(k).x1
        /\ TickLine(k).y1 = baseline_y
        /\ TickLine(k).y2 = PySub(baseline_y, ticks[k].mark_height)
        /\ NumLe(PyInt(0), ticks[k].mark_height) =>
               NumLe(TickLine(k).y2, TickLine(k).y1)

C10_Witness ==
    /\ Returned /\ num_marks >= 3
    /\ NumLt(TickLine(2).y2, TickLine(2).y1)
    /\ NumLt(TickLine(3).y2, TickLine(2).y2)

=============================================================================
